---- MODULE Spec2Model ----
(***************************************************************************)
(* A TFTP transfer between one client session and one server session of   *)
(* tftp-rs: option negotiation, the windowed DATA/ACK exchange, the        *)
(* retransmission policy of wait_for_recv and 16-bit block numbers.        *)
(***************************************************************************)
EXTENDS Integers, Sequences, FiniteSets, TLC

VARIABLES
    req_code,    \* "Rrq" (client get) or "Wrq" (client put)
    cliMode,     \* Client.mode
    cliOptions,  \* Client.options, the options put in the request
    limitations, \* Server.options, the server's limits
    srvFileOk,   \* the server can open (Rrq) / create (Wrq) the requested file
    filename,    \* the bytes of the file name put in the request
    srcLen,      \* length in bytes of the file the sending session reads
    srcText,     \* the first bytes of that file, when they are chosen freely
    dstBase,     \* bytes of the destination file written before the first modelled step
    dst,         \* bytes appended to the destination file since
    sess,        \* sess[e]: the TftpSession of endpoint e and where its task is
    net,         \* net[e]: datagrams in flight to endpoint e, oldest first
    lost,        \* the channel has dropped a datagram
    lostPkt,     \* the datagram it dropped
    dataSent,    \* dataSent[e]: DATA packets endpoint e has put on its socket
    ackSent,     \* ackSent[e]: ACK packets endpoint e has put on its socket
    sends,       \* sends[e]: runs of the send action in e's current wait_for_recv
    wlog,        \* block numbers of the DATA payloads written, in order
    lastIn,      \* lastIn[e]: the datagram e's driver processed last
    sentTo,      \* sentTo[e]: the address e sent its latest datagrams to
    dup,         \* the second copy of a datagram the channel delivers late
    xlat,        \* a file read and written back block by block through file::read
                 \* and file::write alone: buffer length, offsets and carries
    listener     \* the tasks Server::serve_forever has spawned and the files they created

vars == <<req_code, cliMode, cliOptions, limitations, srvFileOk, filename, srcLen, srcText,
          dstBase, dst, sess, net, lost, lostPkt, dataSent, ackSent, sends, wlog, lastIn, sentTo,
          dup, xlat, listener>>

config == <<req_code, cliMode, cliOptions, limitations, srvFileOk, filename, srcText, dstBase>>

\* ---------------------------------------------------------------- constants

HEADER_LEN == 4
ROLLOVER == 0
MaxU16 == 65535
DefaultBlksize == 512
DefaultWindowsize == 1
MinBlksize == 8
MaxBlksize == 65464
RetransmitLimit == 10
DefaultTimeout == 10
MaxU8 == 255
NULL == 0
CR == 13
LF == 10

\* ------------------------------------------------------------------- bounds

MaxBlocks == 6    \* full blocks of the file that are transferred step by step
MaxWindow == 4    \* largest windowsize a client offers
TailLen == 3      \* length of a final partial block
LimitWindow == 3  \* the windowsize limit of a server that sets one
OfferBlksize == 16       \* a blksize a client offers
LimitBlksize == 12       \* the blksize limit of a server that sets one
OfferTimeout == 2        \* a timeout a client offers
LowBlksize == 4          \* a blksize limit below the smallest blksize a request may carry
MaxTsize == 100000000    \* largest tsize of the model (a u64 in the source)
MaxText == 5             \* longest file whose bytes are chosen freely
MaxChunk == 3            \* longest buffer such a file is read into
DupBlocks == 4           \* full blocks of the file sent over a duplicating channel
MaxTasks == 3            \* tasks the listener spawns

None == 0 - 1     \* Option::None of a numeric field

Endpoints == {"c", "s"}
Peer(e) == IF e = "c" THEN "s" ELSE "c"

\* Server.service_addr, where the listener receives the requests
ServiceAddr == "service"

\* the address the socket of e's session is bound to: a port of its own
SockAddr(e) == IF e = "c" THEN "client" ELSE "session"

Min(a, b) == IF a < b THEN a ELSE b

\* ------------------------------------------------------------------ options

OptionsDefault == [blksize |-> None, timeout |-> None, tsize |-> None, windowsize |-> None]

blksize(o) == IF o.blksize = None THEN DefaultBlksize ELSE o.blksize

windowsize(o) == IF o.windowsize = None THEN DefaultWindowsize ELSE o.windowsize

\* Options::timeout
timeout_secs(o) == IF o.timeout = None THEN DefaultTimeout ELSE o.timeout

\* has_option looking at blksize and windowsize only
has_option_sizes(o) == o.blksize # None \/ o.windowsize # None

has_option(o) ==
    \/ o.blksize # None
    \/ o.timeout # None
    \/ o.tsize # None
    \/ o.windowsize # None

\* cut_off that only looks at the server's tsize
cut_off_tsize_only(o, lim) == [o EXCEPT !.tsize = IF lim.tsize = None THEN None ELSE o.tsize]

cut_off(o, lim) ==
    [blksize |-> IF o.blksize # None /\ lim.blksize # None /\ lim.blksize < o.blksize
                 THEN lim.blksize ELSE o.blksize,
     timeout |-> IF lim.timeout = None THEN None ELSE o.timeout,
     tsize |-> IF lim.tsize = None THEN None ELSE o.tsize,
     windowsize |-> IF o.windowsize # None /\ lim.windowsize # None
                       /\ lim.windowsize < o.windowsize
                    THEN lim.windowsize ELSE o.windowsize]

set_tsize(o, len) == IF o.tsize # None THEN [o EXCEPT !.tsize = len] ELSE o

\* Options::from(&mut Bytes): the options a received RRQ/WRQ/OACK carrying the
\* values of o yields; a value out of range leaves its option unset.
OptionsFrom(o) ==
    [blksize |-> IF o.blksize # None /\ o.blksize >= MinBlksize /\ o.blksize <= MaxBlksize
                 THEN o.blksize ELSE None,
     timeout |-> IF o.timeout # None /\ 1 <= o.timeout /\ o.timeout <= 255
                 THEN o.timeout ELSE None,
     tsize |-> o.tsize,
     windowsize |-> IF o.windowsize # None /\ 1 <= o.windowsize /\ o.windowsize <= MaxU16
                    THEN o.windowsize ELSE None]

\* -------------------------------------------------------------------- bytes

\* str::as_bytes of the strings of the model
Utf8(str) ==
    CASE str = "octet" -> <<111, 99, 116, 101, 116>>
      [] str = "netascii" -> <<110, 101, 116, 97, 115, 99, 105, 105>>
      [] str = "mail" -> <<109, 97, 105, 108>>
      [] str = "binary" -> <<98, 105, 110, 97, 114, 121>>
      [] str = "OCTET" -> <<79, 67, 84, 69, 84>>
      [] str = "blksize" -> <<98, 108, 107, 115, 105, 122, 101>>
      [] str = "timeout" -> <<116, 105, 109, 101, 111, 117, 116>>
      [] str = "tsize" -> <<116, 115, 105, 122, 101>>
      [] str = "windowsize" -> <<119, 105, 110, 100, 111, 119, 115, 105, 122, 101>>
      [] str = "a" -> <<97>>
      [] str = "new" -> <<110, 101, 119>>
      [] str = "sub" -> <<115, 117, 98>>
      [] str = ".." -> <<46, 46>>
      [] str = "etc" -> <<101, 116, 99>>
      [] str = "x" -> <<120>>
      [] str = "none" -> <<110, 111, 110, 101>>
      [] str = "srv" -> <<115, 114, 118>>

\* the mode strings of the model
ModeNames == {"octet", "netascii", "mail", "binary", "OCTET"}

\* String::from_utf8 of the mode field of a request
from_utf8(bytes) ==
    IF \E m \in ModeNames : Utf8(m) = bytes
    THEN CHOOSE m \in ModeNames : Utf8(m) = bytes
    ELSE "?"

\* str::to_lowercase on ASCII bytes
to_lowercase(bytes) ==
    [i \in 1..Len(bytes) |-> IF bytes[i] >= 65 /\ bytes[i] <= 90 THEN bytes[i] + 32 ELSE bytes[i]]

RECURSIVE to_string(_)
\* ToString of an unsigned integer: its decimal digits
to_string(n) == IF n < 10 THEN <<48 + n>> ELSE Append(to_string(n \div 10), 48 + (n % 10))

RECURSIVE parse_digits(_, _, _)
parse_digits(v, acc, max) ==
    IF v = <<>> THEN acc
    ELSE IF Head(v) < 48 \/ Head(v) > 57 THEN None
    ELSE LET n == acc * 10 + (Head(v) - 48)
         IN  IF n > max THEN None ELSE parse_digits(Tail(v), n, max)

\* str::parse of an unsigned integer type whose largest value is max; None for Err
parse(v, max) ==
    LET digits == IF v # <<>> /\ Head(v) = 43 THEN Tail(v) ELSE v
    IN  IF digits = <<>> THEN None ELSE parse_digits(digits, 0, max)

RECURSIVE split_loop(_, _, _, _)
split_loop(buf, sep, cur, out) ==
    IF buf = <<>> THEN Append(out, cur)
    ELSE IF Head(buf) = sep THEN split_loop(Tail(buf), sep, <<>>, Append(out, cur))
    ELSE split_loop(Tail(buf), sep, Append(cur, Head(buf)), out)

\* slice::split at every byte equal to sep
split(buf, sep) == split_loop(buf, sep, <<>>, <<>>)

\* Options::as_bytes without the windowsize
as_bytes_no_windowsize(o) ==
    LET field(key, val) ==
            IF val = None THEN <<>>
            ELSE Utf8(key) \o <<NULL>> \o to_string(val) \o <<NULL>>
    IN  field("blksize", o.blksize) \o field("timeout", o.timeout) \o field("tsize", o.tsize)

\* Options::as_bytes
as_bytes(o) ==
    LET field(key, val) ==
            IF val = None THEN <<>>
            ELSE Utf8(key) \o <<NULL>> \o to_string(val) \o <<NULL>>
    IN  field("blksize", o.blksize) \o field("timeout", o.timeout)
            \o field("tsize", o.tsize) \o field("windowsize", o.windowsize)

RECURSIVE options_loop(_, _)
\* the loop of Options::from over the NUL-separated (key, value) pairs
options_loop(parameters, options) ==
    IF Len(parameters) < 2 THEN options
    ELSE
        LET k == to_lowercase(parameters[1])
            v == parameters[2]
            blk == parse(v, MaxU16)
            tmo == parse(v, MaxU8)
            tsz == parse(v, MaxTsize)
            win == parse(v, MaxU16)
            o1 == IF k = Utf8("blksize") /\ blk # None /\ MinBlksize <= blk /\ blk <= MaxBlksize
                  THEN [options EXCEPT !.blksize = blk] ELSE options
            o2 == IF k = Utf8("timeout") /\ tmo # None /\ 1 <= tmo
                  THEN [o1 EXCEPT !.timeout = tmo] ELSE o1
            o3 == IF k = Utf8("tsize") /\ tsz # None
                  THEN [o2 EXCEPT !.tsize = tsz] ELSE o2
            o4 == IF k = Utf8("windowsize") /\ win # None /\ 1 <= win
                  THEN [o3 EXCEPT !.windowsize = win] ELSE o3
        IN  options_loop(SubSeq(parameters, 3, Len(parameters)), o4)

\* impl From<&mut Bytes> for Options
Options_from(buf) == options_loop(split(buf, NULL), OptionsDefault)

\* OpCode as u16
OpCodeNum(op) ==
    CASE op = "Rrq" -> 1 [] op = "Wrq" -> 2 [] op = "Data" -> 3
      [] op = "Ack" -> 4 [] op = "Error" -> 5 [] op = "Oack" -> 6

\* packet::parse_opcode on the first two bytes of buf; "None" for an unknown number
parse_opcode(buf) ==
    LET n == buf[1] * 256 + buf[2]
    IN  IF n >= 1 /\ n <= 6
        THEN CHOOSE op \in {"Rrq", "Wrq", "Data", "Ack", "Error", "Oack"} : OpCodeNum(op) = n
        ELSE "None"

\* packet::request as bytes
request_bytes(op, name, mode, options) ==
    <<0, OpCodeNum(op)>> \o name \o <<NULL>> \o Utf8(mode) \o <<NULL>> \o as_bytes(options)

\* Err(err) of packet::parse_request
ParseErr(err) ==
    [err |-> err, op_code |-> "None", filename |-> <<>>, mode |-> "", options |-> OptionsDefault]

\* packet::parse_request; err is "" for Ok
parse_request(buf) ==
    IF Len(buf) < 6 THEN ParseErr("InvalidPacketLength")
    ELSE
        LET op_code == parse_opcode(buf)
            rest == SubSeq(buf, 3, Len(buf))
            parameters == split(rest, NULL)
        IN  IF op_code = "None" THEN ParseErr("InvalidOpCode")
            ELSE IF Len(parameters) < 2 THEN ParseErr("MissingMode")
            ELSE IF to_lowercase(parameters[2])
                        \notin {Utf8("netascii"), Utf8("octet"), Utf8("mail")}
            THEN ParseErr("InvalidMode")
            ELSE [err |-> "", op_code |-> op_code, filename |-> parameters[1],
                  mode |-> from_utf8(parameters[2]), options |-> Options_from(rest)]

\* ------------------------------------------------------------------ packets

Pkt(op, blocknum, payload, mode, options, code) ==
    [op |-> op, blocknum |-> blocknum, data |-> payload, mode |-> mode,
     options |-> options, code |-> code]

ack(blocknum_ack) == Pkt("Ack", blocknum_ack, <<>>, "", OptionsDefault, 0)

data(num, payload) == Pkt("Data", num, payload, "", OptionsDefault, 0)

\* packet::oack: the options travel as the bytes of Options::as_bytes
oack(options) == Pkt("Oack", 0, as_bytes(options), "", OptionsDefault, 0)

\* packet::request: the whole datagram, opcode included, travels as bytes
request(op, mode, options) ==
    Pkt(op, 0, request_bytes(op, filename, mode, options), "", OptionsDefault, 0)

NoPkt == Pkt("None", 0, <<>>, "", OptionsDefault, 0)

\* serve_forever before its first recv_from: no task spawned, no file created
ListenerNew == [tasks |-> <<>>, created |-> {}]

\* the channel holds no second copy of a datagram
NoDup == [state |-> "none", pkt |-> NoPkt, to |-> "c"]

\* Error::error_code as the number put on the wire
error_code(err) ==
    CASE err = "FileNotFound" -> 1
      [] err \in {"InvalidFileName", "InvalidMode", "InvalidOpCode", "InvalidPacketLength",
                  "MissingErrorMessage", "MissingFileName", "MissingMode"} -> 4
      [] OTHER -> 0

error(err) == Pkt("Error", 0, <<>>, "", OptionsDefault, error_code(err))

\* --------------------------------------------------------------------- file

\* The byte at offset p of the source file.
SrcByte(p) == IF p < Len(srcText) THEN srcText[p + 1] ELSE p % 256

\* file::read_octet at reader_pos into a buffer of len bytes
read_octet(reader_pos, len) ==
    LET size == IF reader_pos >= srcLen THEN 0 ELSE Min(len, srcLen - reader_pos)
    IN [reader_pos_len |-> size,
        buf |-> [i \in 1..size |-> SrcByte(reader_pos + i - 1)],
        lastch |-> None]

RECURSIVE read_netascii_loop(_, _, _, _, _)
\* the while loop of file::read_netascii (unix): pos is the reader's offset,
\* out the filled part of buf, consumed the bytes read from the file
read_netascii_loop(pos, out, lastch, consumed, len) ==
    IF Len(out) >= len THEN [reader_pos_len |-> consumed, buf |-> out, lastch |-> lastch]
    ELSE
        LET out1 == IF lastch # None THEN Append(out, lastch) ELSE out
        IN  IF lastch # None /\ len <= Len(out1)
            THEN [reader_pos_len |-> consumed, buf |-> out1, lastch |-> None]
            ELSE IF pos >= srcLen
            THEN [reader_pos_len |-> consumed, buf |-> out1, lastch |-> None]
            ELSE
                LET ch == SrcByte(pos)
                    out2 == IF ch = LF THEN Append(out1, CR) ELSE out1
                IN  IF ch = LF /\ len <= Len(out2)
                    THEN [reader_pos_len |-> consumed + 1, buf |-> out2, lastch |-> ch]
                    ELSE read_netascii_loop(pos + 1, Append(out2, ch),
                                            IF ch = CR THEN NULL ELSE None,
                                            consumed + 1, len)

read_netascii(reader_pos, lastch, len) == read_netascii_loop(reader_pos, <<>>, lastch, 0, len)

\* file::read: seek to reader_pos, then read by mode
read(reader_pos, len, mode, lastch) ==
    IF mode = "octet" THEN read_octet(reader_pos, len)
    ELSE read_netascii(reader_pos, lastch, len)

\* file::write_octet on the file positioned at its end
write_octet(file, buf) == [file |-> file \o buf, lastch |-> None]

RECURSIVE write_netascii_windows(_, _, _)
\* file::write_netascii as built for windows: the CR before an LF stays
write_netascii_windows(file, lastch, buf) ==
    IF buf = <<>> THEN [file |-> file, lastch |-> lastch]
    ELSE
        LET ch == Head(buf)
        IN  IF ch = NULL /\ lastch # None
            THEN write_netascii_windows(file, None, Tail(buf))
            ELSE IF ch = CR
            THEN write_netascii_windows(Append(file, ch), ch, Tail(buf))
            ELSE write_netascii_windows(Append(file, ch), None, Tail(buf))

RECURSIVE write_netascii(_, _, _)
\* file::write_netascii (not windows) on the file positioned at its end
write_netascii(file, lastch, buf) ==
    IF buf = <<>> THEN [file |-> file, lastch |-> lastch]
    ELSE
        LET ch == Head(buf)
        IN  IF ch = NULL /\ lastch # None
            THEN write_netascii(file, None, Tail(buf))
            ELSE IF ch = CR
            THEN write_netascii(Append(file, ch), ch, Tail(buf))
            ELSE IF ch = LF /\ lastch # None
            THEN write_netascii(Append(SubSeq(file, 1, Len(file) - 1), ch), None, Tail(buf))
            ELSE write_netascii(Append(file, ch), None, Tail(buf))

\* file::write: seek to the end, then write by mode
write(file, buf, mode, lastch) ==
    IF mode = "octet" THEN write_octet(file, buf)
    ELSE write_netascii(file, lastch, buf)

\* a copy through file::read and file::write that has not started, with
\* buffers of len bytes
XlatNew(len) ==
    [len |-> len, reader_pos |-> 0, rlastch |-> None, eof |-> FALSE,
     blocks |-> <<>>, file |-> <<>>, wlastch |-> None]

\* ------------------------------------------------------------------ session

NoWait == [kind |-> "none", start |-> 0, pos |-> 0, lastch |-> None, cont |-> "none"]

\* TftpSession::new on a socket connected to sock_peer ("None": not connected),
\* with the task not yet started (pc)
SessionNew(pc, sock_peer, remote_addr) ==
    [pc |-> pc, err |-> "", sock_peer |-> sock_peer, remote_addr |-> remote_addr,
     blocknum_ack |-> 0, blocknum_blocks |-> <<>>, received_data |-> 0,
     local_file |-> "None", mode |-> "netascii", options |-> OptionsDefault,
     rollover |-> 0, lastch |-> None,
     connected |-> FALSE, wait |-> NoWait, retransmit |-> 0]

blocknum_ack_add(s, value) ==
    IF s.blocknum_ack + value > MaxU16 THEN ROLLOVER ELSE s.blocknum_ack + value

blocknum_expect(s, num) ==
    LET min == blocknum_ack_add(s, 1)
        max == blocknum_ack_add(s, windowsize(s.options))
    IN  IF min <= max THEN min <= num /\ num <= max
        ELSE min <= num \/ num <= max

\* received_data_last comparing with the default windowsize, not the negotiated one
received_data_last_default(s) == s.received_data = DefaultWindowsize

received_data_last(s) == s.received_data = windowsize(s.options)

sent_completed(s) ==
    IF s.blocknum_blocks = <<>> THEN FALSE
    ELSE s.blocknum_blocks[Len(s.blocknum_blocks)].data_len < blksize(s.options) + HEADER_LEN

\* the iteration of send_multi_data without the break after a short block
send_multi_step_nobreak(s, st) ==
    LET over == st.blocknum_req + 1 > MaxU16
        bn == IF over THEN ROLLOVER ELSE st.blocknum_req + 1
        r == read(st.reader_pos, blksize(s.options), s.mode, st.lastch)
        sent_len == Len(r.buf) + HEADER_LEN
        block == [blocknum |-> bn, reader_pos |-> st.reader_pos, lastch |-> st.lastch,
                  data_len |-> sent_len, reader_pos_len |-> r.reader_pos_len]
    IN  [blocknum_req |-> bn,
         reader_pos |-> st.reader_pos + r.reader_pos_len,
         lastch |-> r.lastch,
         rollover |-> IF over THEN st.rollover + 1 ELSE st.rollover,
         blocks |-> Append(st.blocks, block),
         pkts |-> Append(st.pkts, data(bn, r.buf)),
         stop |-> FALSE]

\* one iteration of the for loop of send_multi_data
send_multi_step(s, st) ==
    LET over == st.blocknum_req + 1 > MaxU16
        bn == IF over THEN ROLLOVER ELSE st.blocknum_req + 1
        r == read(st.reader_pos, blksize(s.options), s.mode, st.lastch)
        sent_len == Len(r.buf) + HEADER_LEN
        block == [blocknum |-> bn, reader_pos |-> st.reader_pos, lastch |-> st.lastch,
                  data_len |-> sent_len, reader_pos_len |-> r.reader_pos_len]
    IN  [blocknum_req |-> bn,
         reader_pos |-> st.reader_pos + r.reader_pos_len,
         lastch |-> r.lastch,
         rollover |-> IF over THEN st.rollover + 1 ELSE st.rollover,
         blocks |-> Append(st.blocks, block),
         pkts |-> Append(st.pkts, data(bn, r.buf)),
         stop |-> sent_len < blksize(s.options) + HEADER_LEN]

RECURSIVE send_multi_loop(_, _, _)
send_multi_loop(s, n, st) ==
    IF n = 0 \/ st.stop THEN st ELSE send_multi_loop(s, n - 1, send_multi_step(s, st))

\* TftpSession::send_multi_data: the blocks recorded, the rollover and carry
\* returned, and the DATA packets put on the socket
send_multi_data(s, blocknum_start, reader_pos, lastch) ==
    send_multi_loop(s, windowsize(s.options),
                    [blocknum_req |-> blocknum_start, reader_pos |-> reader_pos,
                     lastch |-> lastch, rollover |-> s.rollover,
                     blocks |-> <<>>, pkts |-> <<>>, stop |-> FALSE])

\* what the send action of a wait_for_recv puts on the socket
send_action(s, w) ==
    CASE w.kind = "req" -> <<request(req_code, s.mode,
                                     IF req_code = "Wrq" THEN set_tsize(cliOptions, srcLen)
                                     ELSE cliOptions)>>
      [] w.kind = "oack" -> <<oack(s.options)>>
      [] w.kind = "ack" -> <<ack(s.blocknum_ack)>>
      [] w.kind = "data" -> send_multi_data(s, w.start, w.pos, w.lastch).pkts
      [] OTHER -> <<>>

\* the result of a step of a session: its new state, the datagrams it sent and
\* the destination file
Outcome(s, out, file, wblk) == [s |-> s, out |-> out, file |-> file, wblk |-> wblk]

\* wait_for_recv up to its first await of recv_action: the send action has run once
wait_for_recv(s, w, file) ==
    LET s1 == [s EXCEPT !.pc = "wait", !.wait = w, !.retransmit = 1]
    IN  Outcome(s1, send_action(s1, w), file, <<>>)

recv_with_timeout(s, file) == wait_for_recv(s, NoWait, file)

send_ack_recv_data(s, cont, file) ==
    wait_for_recv(s, [NoWait EXCEPT !.kind = "ack", !.cont = cont], file)

send_oack_recv_data(s, file) == wait_for_recv(s, [NoWait EXCEPT !.kind = "oack"], file)

send_req_recv_data(s, file) == wait_for_recv(s, [NoWait EXCEPT !.kind = "req"], file)

\* the task panicked in TftpSession::reader or TftpSession::writer_mut
Panic(s, file) == Outcome([s EXCEPT !.pc = "panic"], <<>>, file, <<>>)

\* the index in blocknum_blocks of the block numbered num, 0 when there is none
FindBlock(s, num) ==
    LET found == {i \in 1..Len(s.blocknum_blocks) : s.blocknum_blocks[i].blocknum = num}
    IN  IF found = {} THEN 0 ELSE CHOOSE i \in found : \A j \in found : i <= j

send_data_recv_ack(s, blocknum_start, file) ==
    LET blocknum_req == IF blocknum_start + 1 > MaxU16 THEN ROLLOVER ELSE blocknum_start + 1
        i == FindBlock(s, blocknum_req)
        n == Len(s.blocknum_blocks)
        reader_pos == IF i # 0 THEN s.blocknum_blocks[i].reader_pos
                      ELSE IF n # 0
                      THEN s.blocknum_blocks[n].reader_pos + s.blocknum_blocks[n].reader_pos_len
                      ELSE 0
        lastch == IF i # 0 THEN s.blocknum_blocks[i].lastch
                  ELSE IF n # 0 THEN s.lastch
                  ELSE None
    IN  IF s.local_file # "Reader" THEN Panic(s, file)
        ELSE wait_for_recv(s, [kind |-> "data", start |-> blocknum_start, pos |-> reader_pos,
                               lastch |-> lastch, cont |-> "none"], file)

\* after_recv connecting the socket to the address the request was sent to
after_recv_service(s) ==
    LET w == s.wait
    IN  CASE w.kind = "data" ->
                LET r == send_multi_data(s, w.start, w.pos, w.lastch)
                IN  [s EXCEPT !.blocknum_blocks = r.blocks, !.rollover = r.rollover,
                              !.lastch = r.lastch]
          [] w.kind = "ack" /\ w.cont = "clear" -> [s EXCEPT !.received_data = 0]
          [] w.kind = "req" -> [s EXCEPT !.sock_peer = s.remote_addr, !.connected = TRUE]
          [] OTHER -> s

\* the code after the await of a wait_for_recv that returned a datagram
after_recv(s) ==
    LET w == s.wait
    IN  CASE w.kind = "data" ->
                LET r == send_multi_data(s, w.start, w.pos, w.lastch)
                IN  [s EXCEPT !.blocknum_blocks = r.blocks, !.rollover = r.rollover,
                              !.lastch = r.lastch]
          [] w.kind = "ack" /\ w.cont = "clear" -> [s EXCEPT !.received_data = 0]
          [] w.kind = "req" ->
                \* recv_from returns the address of the socket of the server task
                LET addr == SockAddr("s")
                IN  [s EXCEPT !.remote_addr = addr, !.sock_peer = addr, !.connected = TRUE]
          [] OTHER -> s

\* the address the datagrams out of a step of session s go to: send_to with
\* remote_addr for a request, send on the connected socket for the others
send_addr(s, out) ==
    IF out[1].op \in {"Rrq", "Wrq"} THEN s.remote_addr ELSE s.sock_peer

\* Ok(None) of a handler: handle_packet leaves its loop and returns Ok(())
Completed(s, out, file, wblk) == Outcome([s EXCEPT !.pc = "done"], out, file, wblk)

\* Err(err) out of the task: the server sends an ERROR packet (serve_forever),
\* the client returns the error to its caller (handl_request)
Failed(e, s, err, file) ==
    Outcome([s EXCEPT !.pc = "failed", !.err = err],
            IF e = "s" THEN <<error(err)>> ELSE <<>>, file, <<>>)

\* -------------------------------------------------------------------- paths

\* A path is the sequence of its components below "/"; a component is a
\* sequence of bytes.

\* Server.root, canonical
Root == <<Utf8("srv")>>

\* the directories and the regular files of the server's host
Dirs == {<<>>, Root, Root \o <<Utf8("sub")>>, <<Utf8("etc")>>}
Files == {Root \o <<Utf8("a")>>, <<Utf8("etc"), Utf8("x")>>}

\* the components of a file name: empty ones and "." are dropped
Components(name) ==
    SelectSeq(split(name, 47), LAMBDA c : c # <<>> /\ c # <<46>>)

\* PathBuf::push: an absolute name replaces the path
push(path, name) ==
    IF name # <<>> /\ Head(name) = 47 THEN Components(name) ELSE path \o Components(name)

RECURSIVE canonicalize_loop(_, _)
\* Path::canonicalize, component by component from the resolved path cur; the
\* host has no symbolic links
canonicalize_loop(cur, rest) ==
    IF rest = <<>> THEN [ok |-> TRUE, path |-> cur]
    ELSE IF cur \notin Dirs THEN [ok |-> FALSE, path |-> cur]
    ELSE IF Head(rest) = Utf8("..")
    THEN canonicalize_loop(IF cur = <<>> THEN cur ELSE SubSeq(cur, 1, Len(cur) - 1), Tail(rest))
    ELSE IF Append(cur, Head(rest)) \notin Dirs \cup Files THEN [ok |-> FALSE, path |-> cur]
    ELSE canonicalize_loop(Append(cur, Head(rest)), Tail(rest))

canonicalize(path) == canonicalize_loop(<<>>, path)

\* Path::starts_with, by components
starts_with(path, base) ==
    Len(base) <= Len(path) /\ SubSeq(path, 1, Len(base)) = base

\* file::open_read succeeds
open_read(path) == path \in Files

\* file::open_create succeeds: create_new in an existing directory
open_create(path) ==
    /\ path # <<>>
    /\ path \notin Files \cup Dirs
    /\ SubSeq(path, 1, Len(path) - 1) \in Dirs

\* ------------------------------------------------------------------- driver

\* handle_ack taking every ACK as an expected one
handle_ack_any(s, pkt, file) ==
    LET blocknum == pkt.blocknum
        s1 == [s EXCEPT !.blocknum_ack = blocknum]
    IN  IF blocknum # 0 \/ s.rollover # 0
        THEN IF sent_completed(s1) THEN Completed(s1, <<>>, file, <<>>)
             ELSE send_data_recv_ack(s1, s1.blocknum_ack, file)
        ELSE send_data_recv_ack(s, s.blocknum_ack, file)

handle_ack(s, pkt, file) ==
    LET blocknum == pkt.blocknum
        s1 == [s EXCEPT !.blocknum_ack = blocknum]
    IN  IF blocknum # 0 \/ s.rollover # 0
        THEN IF ~blocknum_expect(s, blocknum) THEN recv_with_timeout(s, file)
             ELSE IF sent_completed(s1) THEN Completed(s1, <<>>, file, <<>>)
             ELSE send_data_recv_ack(s1, s1.blocknum_ack, file)
        ELSE send_data_recv_ack(s, s.blocknum_ack, file)

\* handle_data writing the payload of a block older than the expected one
handle_data_rewrite(s, pkt, file) ==
    LET blocknum == pkt.blocknum
        expect == blocknum_ack_add(s, 1)
    IN  IF expect < blocknum THEN send_ack_recv_data(s, "clear", file)
        ELSE IF s.local_file # "Writer" THEN Panic(s, file)
        ELSE
            LET w == write(file, pkt.data, s.mode, s.lastch)
                s1 == [s EXCEPT !.received_data = @ + 1,
                                !.rollover = IF expect = ROLLOVER THEN @ + 1 ELSE @,
                                !.lastch = w.lastch,
                                !.blocknum_ack = blocknum]
            IN  IF Len(pkt.data) < blksize(s1.options)
                THEN Completed(s1, <<ack(s1.blocknum_ack)>>, w.file, <<blocknum>>)
                ELSE IF received_data_last(s1)
                THEN [send_ack_recv_data(s1, "clear", w.file) EXCEPT !.wblk = <<blocknum>>]
                ELSE [recv_with_timeout(s1, w.file) EXCEPT !.wblk = <<blocknum>>]

handle_data(s, pkt, file) ==
    LET blocknum == pkt.blocknum
        expect == blocknum_ack_add(s, 1)
    IN  IF expect < blocknum THEN send_ack_recv_data(s, "clear", file)
        ELSE IF expect = blocknum
        THEN IF s.local_file # "Writer" THEN Panic(s, file)
             ELSE
                LET w == write(file, pkt.data, s.mode, s.lastch)
                    s1 == [s EXCEPT !.received_data = @ + 1,
                                    !.rollover = IF expect = ROLLOVER THEN @ + 1 ELSE @,
                                    !.lastch = w.lastch,
                                    !.blocknum_ack = blocknum]
                IN  IF Len(pkt.data) < blksize(s1.options)
                    THEN Completed(s1, <<ack(s1.blocknum_ack)>>, w.file, <<blocknum>>)
                    ELSE IF received_data_last(s1)
                    THEN [send_ack_recv_data(s1, "clear", w.file) EXCEPT !.wblk = <<blocknum>>]
                    ELSE [recv_with_timeout(s1, w.file) EXCEPT !.wblk = <<blocknum>>]
        ELSE recv_with_timeout(s, file)

handle_error(s, pkt, file) == Completed(s, <<>>, file, <<>>)

\* handle_oack leaving the options of the session as they are
handle_oack_keep(s, pkt, file) ==
    IF req_code = "Wrq" THEN send_data_recv_ack(s, 0, file)
    ELSE send_ack_recv_data(s, "none", file)

handle_oack(s, pkt, file) ==
    LET s1 == [s EXCEPT !.options = Options_from(pkt.data)]
    IN  IF req_code = "Wrq" THEN send_data_recv_ack(s1, 0, file)
        ELSE send_ack_recv_data(s1, "none", file)

\* one iteration of the loop of handle_packet on the datagram pkt
handle_packet(e, s, pkt, file) ==
    CASE pkt.op = "Ack" -> handle_ack(s, pkt, file)
      [] pkt.op = "Data" -> handle_data(s, pkt, file)
      [] pkt.op = "Oack" -> handle_oack(s, pkt, file)
      [] pkt.op = "Error" -> handle_error(s, pkt, file)
      [] OTHER -> Failed(e, s, "InvalidOpCode", file)

\* server::handle_request up to its first await of a datagram
handle_request(s, pkt, file) ==
    LET req == parse_request(pkt.data)
        s1 == [s EXCEPT !.mode = req.mode]
        filepath == push(Root, req.filename)
        local_file == canonicalize(filepath)
        options == cut_off(req.options, limitations)
    IN  IF req.err # "" THEN Failed("s", s, req.err, file)
        ELSE IF req.op_code = "Rrq"
        THEN IF ~local_file.ok THEN Failed("s", s1, "Io", file)
             ELSE IF ~starts_with(local_file.path, Root)
             THEN Failed("s", s1, "InvalidFileName", file)
             ELSE IF ~open_read(local_file.path) THEN Failed("s", s1, "Io", file)
             ELSE
                LET s2 == [s1 EXCEPT !.local_file = "Reader",
                                     !.options = set_tsize(options, srcLen)]
                IN  IF has_option(s2.options) THEN send_oack_recv_data(s2, file)
                    ELSE send_data_recv_ack(s2, 0, file)
        ELSE IF req.op_code = "Wrq"
        THEN IF ~starts_with(filepath, Root)
                    \/ \E i \in 1..Len(filepath) : filepath[i] = Utf8("..")
             THEN Failed("s", s1, "InvalidFileName", file)
             ELSE IF ~open_create(filepath) THEN Failed("s", s1, "Io", file)
             ELSE
                LET s2 == [s1 EXCEPT !.local_file = "Writer", !.options = options]
                IN  IF has_option(s2.options) THEN send_oack_recv_data(s2, file)
                    ELSE send_ack_recv_data(s2, "none", file)
        ELSE Failed("s", s1, "InvalidOpCode", file)

\* Client::handl_request up to its first await of a datagram
handl_request(s, file) ==
    LET s1 == [s EXCEPT !.mode = cliMode,
                        !.local_file = IF req_code = "Rrq" THEN "Writer" ELSE "Reader"]
    IN  send_req_recv_data(s1, file)

\* --------------------------------------------------------------- initial states

Modes == {"octet"}

\* the options a client is built with
ClientOptionSets ==
    {OptionsDefault} \cup
    {[OptionsDefault EXCEPT !.blksize = MinBlksize, !.windowsize = w] :
        w \in {None} \cup 2..MaxWindow}

\* the limits a server is built with
LimitSets == {OptionsDefault, [OptionsDefault EXCEPT !.windowsize = LimitWindow]}

CountOp(pkts, op) == Cardinality({i \in 1..Len(pkts) : pkts[i].op = op})

\* the options of the server session for a request carrying co (handle_request)
ServerOptions(rc, co, lim, len) ==
    LET asked == IF rc = "Wrq" THEN set_tsize(co, len) ELSE co
        kept == cut_off(OptionsFrom(asked), lim)
    IN  IF rc = "Rrq" THEN set_tsize(kept, len) ELSE kept

\* the options of the client session once the server has answered (handle_oack)
ClientSessionOptions(so) == IF has_option(so) THEN OptionsFrom(so) ELSE OptionsDefault

\* the last multiple of the windowsize from which the next two windows contain
\* the step of the block number from 65535 to 0
WrapStart(w) == ((MaxU16 - 1) \div w) * w

\* the FileBlock send_multi_data records for the full octet block numbered b
\* of the first lap
FullBlock(b, blk) ==
    [blocknum |-> b, reader_pos |-> (b - 1) * blk, lastch |-> None,
     data_len |-> blk + HEADER_LEN, reader_pos_len |-> blk]

\* The sessions at the start of a transfer: nothing has been sent yet.
InitFresh ==
    /\ dstBase = 0
    /\ sess = [c |-> SessionNew("init", "None", ServiceAddr),
               s |-> SessionNew("listen", SockAddr("c"), SockAddr("c"))]
    /\ sentTo = [c |-> "None", s |-> "None"]
    /\ net = [c |-> <<>>, s |-> <<>>]
    /\ dataSent = [c |-> 0, s |-> 0]
    /\ ackSent = [c |-> 0, s |-> 0]
    /\ sends = [c |-> 0, s |-> 0]
    /\ lastIn = [c |-> NoPkt, s |-> NoPkt]

\* The sessions of an octet transfer whose first n blocks (n a multiple of the
\* windowsize w, n >= 2w, n <= 65535) went through without loss or timeout:
\* the receiver has written n blocks and its ACK of block n is in flight; the
\* sender waits for it.
InitAfter(n, so) ==
    LET w == windowsize(so)
        blk == blksize(so)
        snd == IF req_code = "Rrq" THEN "s" ELSE "c"
        rcv == Peer(snd)
        opts == [c |-> ClientSessionOptions(so), s |-> so]
        sender == [SessionNew("wait", SockAddr(rcv), SockAddr(rcv)) EXCEPT
                     !.blocknum_ack = n - w,
                     !.blocknum_blocks = [i \in 1..w |-> FullBlock(n - 2 * w + i, blk)],
                     !.local_file = "Reader", !.mode = cliMode, !.options = opts[snd],
                     !.connected = (snd = "c"),
                     !.wait = [kind |-> "data", start |-> n - w, pos |-> (n - w) * blk,
                               lastch |-> None, cont |-> "none"],
                     !.retransmit = 1]
        receiver == [SessionNew("wait", SockAddr(snd), SockAddr(snd)) EXCEPT
                     !.blocknum_ack = n, !.received_data = w,
                     !.local_file = "Writer", !.mode = cliMode, !.options = opts[rcv],
                     !.connected = (rcv = "c"),
                     !.wait = [NoWait EXCEPT !.kind = "ack", !.cont = "clear"],
                     !.retransmit = 1]
    IN  /\ dstBase = n * blk
        /\ sess = [e \in Endpoints |-> IF e = snd THEN sender ELSE receiver]
        /\ net = [e \in Endpoints |-> IF e = snd THEN <<ack(n)>> ELSE <<>>]
        /\ dataSent = [e \in Endpoints |-> IF e = snd THEN n ELSE 0]
        /\ ackSent = [e \in Endpoints |->
                        IF e = rcv THEN (n \div w) + (IF req_code = "Rrq" THEN 1 ELSE 0) ELSE 0]
        /\ sends = [c |-> 1, s |-> 1]
        /\ sentTo = [e \in Endpoints |-> SockAddr(Peer(e))]
        /\ lastIn = [e \in Endpoints |->
                        IF e = snd THEN ack(n - w)
                        ELSE data(n, [i \in 1..blk |-> SrcByte((n - 1) * blk + i - 1)])]

Init ==
    /\ req_code \in {"Rrq", "Wrq"}
    /\ cliMode \in Modes
    /\ cliOptions \in ClientOptionSets
    /\ limitations \in LimitSets
    /\ srvFileOk \in BOOLEAN
    /\ filename = IF (req_code = "Rrq") = srvFileOk THEN Utf8("a") ELSE Utf8("new")
    /\ srcText = <<>>
    /\ xlat = XlatNew(DefaultBlksize)
    /\ dup = NoDup
    /\ listener = ListenerNew
    /\ dst = <<>>
    /\ lost = FALSE
    /\ lostPkt = NoPkt
    /\ wlog = <<>>
    /\ \E nb \in 0..MaxBlocks, tail \in {0, TailLen}, wrap \in BOOLEAN :
        LET so == ServerOptions(req_code, cliOptions, limitations, 0)
        IN  IF wrap
            THEN /\ srvFileOk
                 /\ so.blksize # None
                 /\ InitAfter(WrapStart(windowsize(so)), so)
                 /\ srcLen = dstBase + nb * MinBlksize + tail
            ELSE /\ InitFresh
                 /\ srcLen = nb * MinBlksize + tail

\* the server opens the file of the request (handle_request)
ServerOpens(rc, name) ==
    LET filepath == push(Root, name)
        local_file == canonicalize(filepath)
    IN  IF rc = "Rrq"
        THEN local_file.ok /\ starts_with(local_file.path, Root) /\ open_read(local_file.path)
        ELSE /\ starts_with(filepath, Root)
             /\ \A i \in 1..Len(filepath) : filepath[i] # Utf8("..")
             /\ open_create(filepath)

\* the options of the requests whose negotiation is followed
ReqOptionSets ==
    [blksize : {None, MinBlksize, OfferBlksize}, timeout : {None, OfferTimeout},
     tsize : {None, 0}, windowsize : {None, MaxWindow}]

\* the limits of the servers that answer them; the timeout and tsize of a
\* server only say that it accepts the option
ReqLimitSets ==
    [blksize : {None, LimitBlksize, LowBlksize}, timeout : {None, 0},
     tsize : {None, 0}, windowsize : {None, LimitWindow}]

\* a request carrying the extreme value of every option
EdgeOptions ==
    [blksize |-> MaxBlksize, timeout |-> MaxU8, tsize |-> MaxTsize, windowsize |-> MaxU16]

\* the file names requested: in and out of the root, relative and absolute,
\* of files that exist and of files that do not
ReqFileNames ==
    LET sl == <<47>>
    IN  {Utf8("a"), Utf8("new"), Utf8("blksize"),
         Utf8("sub") \o sl \o Utf8("..") \o sl \o Utf8("a"),
         Utf8("..") \o sl \o Utf8("etc") \o sl \o Utf8("x"),
         Utf8("..") \o sl \o Utf8("etc") \o sl \o Utf8("none"),
         sl \o Utf8("etc") \o sl \o Utf8("x"),
         sl \o Utf8("srv") \o sl \o Utf8("a"),
         sl \o Utf8("srv") \o sl \o Utf8("new")}

\* The start of a transfer of a short file, for every kind of request: either
\* a plain file name with every combination of options and limits, or every
\* file name and mode with few options.
ReqInit ==
    /\ req_code \in {"Rrq", "Wrq"}
    /\ \/ /\ cliMode \in {"octet", "netascii"}
          /\ filename \in {Utf8("a"), Utf8("new")}
          /\ cliOptions \in ReqOptionSets
          /\ limitations \in ReqLimitSets
       \/ /\ cliMode \in ModeNames
          /\ filename \in ReqFileNames
          /\ cliOptions \in {OptionsDefault, EdgeOptions}
          /\ limitations = OptionsDefault
    /\ srvFileOk = ServerOpens(req_code, filename)
    /\ srcLen = TailLen
    /\ srcText = <<>>
    /\ xlat = XlatNew(DefaultBlksize)
    /\ dup = NoDup
    /\ listener = ListenerNew
    /\ dst = <<>>
    /\ lost = FALSE
    /\ lostPkt = NoPkt
    /\ wlog = <<>>
    /\ InitFresh

\* The start of an octet transfer from its first block, of a file the server
\* can open, with few options.
DupInit ==
    /\ req_code \in {"Rrq", "Wrq"}
    /\ cliMode = "octet"
    /\ cliOptions \in {OptionsDefault,
                       [OptionsDefault EXCEPT !.blksize = MinBlksize],
                       [OptionsDefault EXCEPT !.blksize = MinBlksize, !.windowsize = 2]}
    /\ limitations = OptionsDefault
    /\ srvFileOk = TRUE
    /\ filename = IF req_code = "Rrq" THEN Utf8("a") ELSE Utf8("new")
    /\ srcText = <<>>
    /\ xlat = XlatNew(DefaultBlksize)
    /\ dup = NoDup
    /\ listener = ListenerNew
    /\ dst = <<>>
    /\ lost = FALSE
    /\ lostPkt = NoPkt
    /\ wlog = <<>>
    /\ InitFresh
    /\ \E nb \in {0, DupBlocks}, tail \in {0, TailLen} : srcLen = nb * MinBlksize + tail

\* The start of a transfer, in a mode parse_request takes for octet, of a file
\* of the bytes netascii treats specially.
ModeInit ==
    /\ req_code \in {"Rrq", "Wrq"}
    /\ cliMode \in {"octet", "OCTET"}
    /\ cliOptions \in {OptionsDefault, [OptionsDefault EXCEPT !.blksize = MinBlksize]}
    /\ limitations = OptionsDefault
    /\ srvFileOk = TRUE
    /\ filename = IF req_code = "Rrq" THEN Utf8("a") ELSE Utf8("new")
    /\ srcText \in UNION {[1..n -> {CR, LF, NULL, 97}] : n \in 0..MaxText}
    /\ srcLen = Len(srcText)
    /\ xlat = XlatNew(DefaultBlksize)
    /\ dup = NoDup
    /\ listener = ListenerNew
    /\ dst = <<>>
    /\ lost = FALSE
    /\ lostPkt = NoPkt
    /\ wlog = <<>>
    /\ InitFresh

\* the bytes netascii treats specially, and an ordinary one
TextBytes == {CR, LF, NULL, 97}

\* A netascii file of freely chosen bytes about to be read block by block into
\* buffers of every small length, and written back.
XlatInit ==
    /\ req_code = "Rrq"
    /\ cliMode = "netascii"
    /\ cliOptions = OptionsDefault
    /\ limitations = OptionsDefault
    /\ srvFileOk = TRUE
    /\ filename = Utf8("a")
    /\ srcText \in UNION {[1..n -> TextBytes] : n \in 0..MaxText}
    /\ srcLen = Len(srcText)
    /\ xlat \in {XlatNew(len) : len \in 1..MaxChunk}
    /\ dup = NoDup
    /\ listener = ListenerNew
    /\ dst = <<>>
    /\ lost = FALSE
    /\ lostPkt = NoPkt
    /\ wlog = <<>>
    /\ InitFresh

\* ------------------------------------------------------------------ actions

\* the effect of a step of endpoint e with outcome o
Apply(e, o, consumed) ==
    /\ sess' = [sess EXCEPT ![e] = o.s]
    /\ net' = [n \in Endpoints |->
                 IF n = e THEN SubSeq(net[e], consumed + 1, Len(net[e]))
                 ELSE net[n] \o o.out]
    /\ dst' = o.file
    /\ wlog' = wlog \o o.wblk
    /\ dataSent' = [dataSent EXCEPT ![e] = @ + CountOp(o.out, "Data")]
    /\ ackSent' = [ackSent EXCEPT ![e] = @ + CountOp(o.out, "Ack")]
    /\ sentTo' = [sentTo EXCEPT ![e] = IF o.out = <<>> THEN @ ELSE send_addr(o.s, o.out)]

\* Client::get / Client::put: the client sends its request
ClientRequest ==
    /\ sess["c"].pc = "init"
    /\ Apply("c", handl_request(sess["c"], dst), 0)
    /\ sends' = [sends EXCEPT !["c"] = 1]
    /\ UNCHANGED <<config, listener, srcLen, xlat, dup, lost, lostPkt, lastIn>>

\* Server::serve_forever: the listener receives the request and the spawned
\* task runs handle_request
ServerAccept ==
    /\ sess["s"].pc = "listen"
    /\ net["s"] # <<>>
    /\ Apply("s", handle_request(sess["s"], Head(net["s"]), dst), 1)
    /\ sends' = [sends EXCEPT !["s"] = 1]
    /\ lastIn' = [lastIn EXCEPT !["s"] = Head(net["s"])]
    /\ UNCHANGED <<config, listener, srcLen, xlat, dup, lost, lostPkt>>

\* the recv_action of e's wait_for_recv returns a datagram, and handle_packet
\* processes it up to the next await of a datagram
Recv(e) ==
    /\ sess[e].pc = "wait"
    /\ net[e] # <<>>
    /\ Apply(e, handle_packet(e, after_recv(sess[e]), Head(net[e]), dst), 1)
    /\ sends' = [sends EXCEPT ![e] = 1]
    /\ lastIn' = [lastIn EXCEPT ![e] = Head(net[e])]
    /\ UNCHANGED <<config, listener, srcLen, xlat, dup, lost, lostPkt>>

\* wait_for_recv after the deadline of time::timeout has expired
timeout(e, s, file) ==
    IF s.retransmit >= RetransmitLimit THEN Failed(e, s, "Timedout", file)
    ELSE Outcome([s EXCEPT !.retransmit = @ + 1], send_action(s, s.wait), file, <<>>)

\* The deadline of e's wait expires. Datagrams in flight arrive before a
\* deadline does, so it expires only when nothing is in flight.
Timeout(e) ==
    /\ sess[e].pc = "wait"
    /\ net["c"] = <<>> /\ net["s"] = <<>>
    /\ Apply(e, timeout(e, sess[e], dst), 0)
    /\ sends' = [sends EXCEPT ![e] = IF sess'[e].pc = "wait" THEN @ + 1 ELSE @]
    /\ UNCHANGED <<config, listener, srcLen, xlat, dup, lost, lostPkt, lastIn>>

\* The channel drops one DATA or ACK datagram of the transfer.
Lose ==
    /\ ~lost
    /\ sess["c"].connected
    /\ \E e \in Endpoints : \E i \in 1..Len(net[e]) :
        /\ sess[e].pc = "wait"
        /\ net[e][i].op \in {"Data", "Ack"}
        /\ net' = [net EXCEPT ![e] = SubSeq(@, 1, i - 1) \o SubSeq(@, i + 1, Len(@))]
        /\ lostPkt' = net[e][i]
    /\ lost' = TRUE
    /\ UNCHANGED <<config, listener, srcLen, xlat, dup, dst, sess, dataSent, ackSent, sends, wlog, lastIn,
                   sentTo>>

\* A datagram reaches the socket of a task that has ended.
Discard(e) ==
    /\ sess[e].pc \in {"done", "failed", "panic"}
    /\ net[e] # <<>>
    /\ net' = [net EXCEPT ![e] = Tail(@)]
    /\ UNCHANGED <<config, listener, srcLen, xlat, dup, dst, sess, lost, lostPkt, dataSent, ackSent, sends,
                   wlog, lastIn, sentTo>>

Next ==
    \/ ClientRequest
    \/ ServerAccept
    \/ \E e \in Endpoints : Recv(e)
    \/ \E e \in Endpoints : Timeout(e)
    \/ Lose
    \/ \E e \in Endpoints : Discard(e)

Spec == Init /\ [][Next]_vars

\* The channel makes a second copy of a datagram of the transfer in flight.
Duplicate ==
    /\ dup.state = "none"
    /\ \E e \in Endpoints : \E i \in 1..Len(net[e]) :
        /\ net[e][i].op \in {"Data", "Ack", "Oack"}
        /\ dup' = [state |-> "held", pkt |-> net[e][i], to |-> e]
    /\ UNCHANGED <<config, listener, srcLen, xlat, dst, sess, net, lost, lostPkt, dataSent, ackSent,
                   sends, wlog, lastIn, sentTo>>

\* The second copy arrives, behind whatever was sent in the meantime.
Redeliver ==
    /\ dup.state = "held"
    /\ net' = [net EXCEPT ![dup.to] = Append(@, dup.pkt)]
    /\ dup' = [dup EXCEPT !.state = "delivered"]
    /\ UNCHANGED <<config, listener, srcLen, xlat, dst, sess, lost, lostPkt, dataSent, ackSent, sends,
                   wlog, lastIn, sentTo>>

\* a transfer over a channel that loses, duplicates and reorders
DupNext ==
    \/ ClientRequest
    \/ ServerAccept
    \/ \E e \in Endpoints : Recv(e)
    \/ \E e \in Endpoints : Timeout(e)
    \/ Lose
    \/ \E e \in Endpoints : Discard(e)
    \/ Duplicate
    \/ Redeliver

DupSpec == DupInit /\ [][DupNext]_vars

\* The peer, which need not run this implementation, sends one datagram of the
\* kind the other side of a transfer receives: a DATA to the session that
\* reads its file, an ACK to the session that writes it. The recv_action of
\* e's wait returns whatever the connected socket receives. The number is the
\* session's blocknum_ack or one of the two that follow it.
PeerSend ==
    /\ dup.state = "none"
    /\ \E e \in Endpoints, k \in 0..2 :
        /\ sess[e].pc = "wait"
        /\ sess[e].connected
        /\ LET num == (sess[e].blocknum_ack + k) % (MaxU16 + 1)
               pkt == IF sess[e].local_file = "Reader" THEN data(num, <<>>) ELSE ack(num)
           IN  /\ net' = [net EXCEPT ![e] = Append(@, pkt)]
               /\ dup' = [state |-> "delivered", pkt |-> pkt, to |-> e]
    /\ UNCHANGED <<config, listener, srcLen, xlat, dst, sess, lost, lostPkt, dataSent, ackSent, sends,
                   wlog, lastIn, sentTo>>

\* a transfer with a peer that sends a datagram of its own
PeerNext ==
    \/ ClientRequest
    \/ ServerAccept
    \/ \E e \in Endpoints : Recv(e)
    \/ \E e \in Endpoints : Timeout(e)
    \/ Lose
    \/ \E e \in Endpoints : Discard(e)
    \/ PeerSend

PeerSpec == DupInit /\ [][PeerNext]_vars

\* the task record of a spawned task whose handle_request ended as o
Task(o, port, filepath) ==
    [port |-> port, s |-> o.s, out |-> o.out,
     path |-> IF o.s.local_file = "Writer" THEN {filepath} ELSE {}]

\* handle_request of a task on the parsed request req: a WRQ for a file an
\* earlier task has created fails in open_create (create_new)
task_request(s0, req, filepath, pkt) ==
    IF req.err = "" /\ req.op_code = "Wrq" /\ filepath \in listener.created
    THEN Failed("s", [s0 EXCEPT !.mode = req.mode], "Io", <<>>)
    ELSE handle_request(s0, pkt, <<>>)

\* The task serve_forever spawns for the datagram pkt on its service socket: a
\* socket on a port of its own connected to the sender, a new session,
\* handle_request, and send_error on its Err. Nothing is looked up about the
\* sender before the task is spawned.
spawn_path(req, filepath, pkt, port) ==
    Task(task_request(SessionNew("listen", SockAddr("c"), SockAddr("c")), req, filepath, pkt),
         port, filepath)

spawn_req(req, pkt, port) == spawn_path(req, push(Root, req.filename), pkt, port)

spawn(pkt, port) == spawn_req(parse_request(pkt.data), pkt, port)

\* the listener's state with one more task
Spawned(task) ==
    [tasks |-> Append(listener.tasks, [port |-> task.port, s |-> task.s, out |-> task.out]),
     created |-> listener.created \cup task.path]

\* serve_forever: recv_from returns the next datagram of the service socket
\* and a task is spawned for it
Spawn ==
    /\ net["s"] # <<>>
    /\ Len(listener.tasks) < MaxTasks
    /\ listener' = Spawned(spawn(Head(net["s"]), Len(listener.tasks) + 1))
    /\ net' = [net EXCEPT !["s"] = Tail(@)]
    /\ UNCHANGED <<config, srcLen, xlat, dup, dst, sess, lost, lostPkt, dataSent, ackSent,
                   sends, wlog, lastIn, sentTo>>

\* the task after its wait_for_recv went on as o
Expired(task, o) == [task EXCEPT !.s = o.s, !.out = @ \o o.out]

\* the deadline of the wait_for_recv of the i-th task expires
TaskTimeout(i) ==
    /\ i <= Len(listener.tasks)
    /\ listener.tasks[i].s.pc = "wait"
    /\ listener' = [listener EXCEPT
                        !.tasks[i] = Expired(@, timeout("s", listener.tasks[i].s, <<>>))]
    /\ UNCHANGED <<config, srcLen, xlat, dup, dst, sess, net, lost, lostPkt, dataSent, ackSent,
                   sends, wlog, lastIn, sentTo>>

\* The request phase seen from the listener: the client sends its request and
\* sends it again at each expiry of its deadline, the answers of the tasks
\* being late or lost; the listener spawns a task for each datagram.
ListenNext ==
    \/ ClientRequest
    \/ Timeout("c")
    \/ Spawn
    \/ \E i \in 1..MaxTasks : TaskTimeout(i)

ListenSpec == DupInit /\ [][ListenNext]_vars

\* The channel holds a datagram of the transfer back: it leaves the queue and
\* arrives later (Redeliver), behind whatever was sent in the meantime, or
\* never.
Delay ==
    /\ dup.state = "none"
    /\ sess["c"].connected
    /\ \E e \in Endpoints : \E i \in 1..Len(net[e]) :
        /\ net[e][i].op \in {"Data", "Ack"}
        /\ dup' = [state |-> "held", pkt |-> net[e][i], to |-> e]
        /\ net' = [net EXCEPT ![e] = SubSeq(@, 1, i - 1) \o SubSeq(@, i + 1, Len(@))]
    /\ UNCHANGED <<config, listener, srcLen, xlat, dst, sess, lost, lostPkt, dataSent, ackSent,
                   sends, wlog, lastIn, sentTo>>

\* a recv_action awaited without time::timeout: the wait never expires
recv_without_deadline(s) == FALSE

\* time::timeout puts a deadline on the recv_action of a session that is in
\* wait_for_recv
deadline(s) == s.pc = "wait"

\* the deadline of e's wait_for_recv expires
Expire(e) ==
    /\ deadline(sess[e])
    /\ Timeout(e)

\* a transfer over a channel that loses one datagram and delivers one out of
\* order, each datagram at most once
LiveNext ==
    \/ ClientRequest
    \/ ServerAccept
    \/ \E e \in Endpoints : Recv(e)
    \/ \E e \in Endpoints : Expire(e)
    \/ Lose
    \/ \E e \in Endpoints : Discard(e)
    \/ Delay
    \/ Redeliver

\* A task of an endpoint can take a step: the guards of ClientRequest,
\* ServerAccept, Recv, Expire and Discard (Apply has none).
TaskReady ==
    \/ sess["c"].pc = "init"
    \/ sess["s"].pc = "listen" /\ net["s"] # <<>>
    \/ \E e \in Endpoints :
        \/ sess[e].pc = "wait" /\ net[e] # <<>>
        \/ deadline(sess[e]) /\ sess[e].pc = "wait" /\ net["c"] = <<>> /\ net["s"] = <<>>
        \/ sess[e].pc \in {"done", "failed", "panic"} /\ net[e] # <<>>

\* A step of LiveNext is a step of a task, not of the channel: Lose changes
\* lost, Delay and Redeliver change dup, and no task touches either.
TaskMoved == lost' = lost /\ dup' = dup

\* A transfer of a file of at most one full block and a tail, or of DupBlocks
\* blocks in windows of two.
LiveInit ==
    /\ DupInit
    /\ cliOptions.windowsize = 2 \/ srcLen <= TailLen

\* The tasks of both endpoints are scheduled and their timers fire: while a
\* task is ready, a step of a task is eventually taken (weak fairness of the
\* tasks' steps taken together, with the guards written out). Nothing is asked
\* of the channel.
LiveSpec ==
    /\ LiveInit
    /\ [][LiveNext]_vars
    /\ ([]<>(~TaskReady) \/ []<><<TaskMoved>>_vars)

\* file::read fills the next buffer from the reader's offset, the carry of the
\* previous call passed in; a buffer not filled is the last one
ReadBlock ==
    /\ ~xlat.eof
    /\ LET r == read(xlat.reader_pos, xlat.len, cliMode, xlat.rlastch)
       IN  xlat' = [xlat EXCEPT !.reader_pos = @ + r.reader_pos_len,
                                !.rlastch = r.lastch,
                                !.eof = Len(r.buf) < xlat.len,
                                !.blocks = Append(@, r.buf)]
    /\ UNCHANGED <<config, listener, srcLen, dst, sess, net, lost, lostPkt, dataSent, ackSent, sends,
                   wlog, lastIn, sentTo, dup>>

\* file::write appends the oldest block read, the carry of the previous call
\* passed in
WriteBlock ==
    /\ xlat.blocks # <<>>
    /\ LET w == write(xlat.file, Head(xlat.blocks), cliMode, xlat.wlastch)
       IN  xlat' = [xlat EXCEPT !.blocks = Tail(@), !.file = w.file, !.wlastch = w.lastch]
    /\ UNCHANGED <<config, listener, srcLen, dst, sess, net, lost, lostPkt, dataSent, ackSent, sends,
                   wlog, lastIn, sentTo, dup>>

XlatNext == ReadBlock \/ WriteBlock

XlatSpec == XlatInit /\ [][XlatNext]_vars

\* the steps of a transfer on which no datagram is lost and no deadline expires
ReqNext ==
    \/ ClientRequest
    \/ ServerAccept
    \/ \E e \in Endpoints : Recv(e)

ReqSpec == ReqInit /\ [][ReqNext]_vars

\* ------------------------------------------------------------------ vocabulary

\* a transfer without loss in a mode parse_request takes for octet
ModeSpec == ModeInit /\ [][ReqNext]_vars

\* the endpoint that reads the source file, and the one that writes the copy
Snd == IF req_code = "Rrq" THEN "s" ELSE "c"
Rcv == Peer(Snd)

\* the destination file is the source file, byte for byte
DstComplete ==
    /\ dstBase + Len(dst) = srcLen
    /\ \A i \in 1..Len(dst) : dst[i] = SrcByte(dstBase + i - 1)

\* b lies in (n, n + w] modulo 2^16
InWindow(n, w, b) == \E k \in 1..w : b = (n + k) % (MaxU16 + 1)

\* this step is Recv(e)
RecvStep(e) ==
    /\ sess[e].pc = "wait"
    /\ net[e] # <<>>
    /\ net'[e] = Tail(net[e])
    /\ lost' = lost

\* the blocks written so far
Written == {wlog[i] : i \in 1..Len(wlog)}

\* the transfer starts at block 1 and does not reach block 65535
FirstLap == dstBase = 0

\* ----------------------------------------------------------------------- C1

\* C1: on a channel that delivers every datagram once and in order, an octet
\* transfer (get or put) of any file ends successfully at both endpoints with
\* the destination equal to the source, for every negotiated blksize and
\* windowsize.
C1_LosslessOctetTransfer ==
    (~lost /\ srvFileOk /\ cliMode = "octet") =>
        /\ \A e \in Endpoints : sess[e].pc \notin {"failed", "panic"}
        /\ (\A e \in Endpoints : sess[e].pc = "done") => DstComplete

\* ----------------------------------------------------------------------- C2

\* C2: if a single ACK from the receiver is dropped and every later datagram
\* is delivered, the sender re-sends the unacknowledged DATA, each block is
\* written once and the transfer still completes successfully at both
\* endpoints, in every interleaving of the two timers. Stated for an ACK of a
\* block that is not the last one, in the first lap of the block numbers.
C2_LostAckRecovered ==
    (/\ lost /\ lostPkt.op = "Ack" /\ srvFileOk /\ FirstLap
     /\ lostPkt.blocknum * blksize(sess[Snd].options) <= srcLen) =>
        /\ \A e \in Endpoints : sess[e].pc \notin {"failed", "panic"}
        /\ (\A e \in Endpoints : sess[e].pc = "done") => DstComplete

\* ----------------------------------------------------------------------- C3

\* C3: a receiver that gets a second copy of a DATA block it has already
\* written, re-sent because its ACK was lost, answers that copy with an ACK of
\* its current blocknum_ack.
C3_DuplicateDataAcked ==
    [][\A e \in Endpoints :
        (/\ RecvStep(e)
         /\ lost /\ lostPkt.op = "Ack" /\ FirstLap
         /\ sess[e].local_file = "Writer"
         /\ Head(net[e]).op = "Data"
         /\ Head(net[e]).blocknum \in Written)
        => net'[Peer(e)] = Append(net[Peer(e)], ack(sess[e].blocknum_ack))]_vars

\* ----------------------------------------------------------------------- C4

\* C4: a received DATA whose block number is lower than the expected one
\* (blocknum_ack + 1 as the session computes it) is not written and leaves
\* blocknum_ack, lastch and received_data as they were; no block is written
\* twice.
C4_OldDataIgnored ==
    [][/\ \A e \in Endpoints :
            (/\ RecvStep(e)
             /\ sess[e].local_file = "Writer"
             /\ Head(net[e]).op = "Data"
             /\ Head(net[e]).blocknum < blocknum_ack_add(sess[e], 1))
            => /\ dst' = dst
               /\ wlog' = wlog
               /\ sess'[e].blocknum_ack = sess[e].blocknum_ack
               /\ sess'[e].lastch = sess[e].lastch
               /\ sess'[e].received_data = after_recv(sess[e]).received_data
       /\ \A i, j \in 1..Len(wlog') : wlog'[i] = wlog'[j] => i = j]_vars

\* C4 witness: with windowsize 1 the receiver has just ignored a second copy of
\* the block it wrote last, and waits without sending.
C4_Witness ==
    /\ sess[Rcv].pc = "wait"
    /\ windowsize(sess[Rcv].options) = 1
    /\ sess[Rcv].wait.kind = "none"
    /\ lastIn[Rcv].op = "Data"
    /\ lastIn[Rcv].blocknum = sess[Rcv].blocknum_ack
    /\ lastIn[Rcv].blocknum \in Written

\* ----------------------------------------------------------------------- C5

\* C5: when the peer's response is an ERROR packet the session terminates and
\* the transfer ends with a failure result, never with success.
C5_ErrorEndsInFailure ==
    \A e \in Endpoints : lastIn[e].op = "Error" => sess[e].pc # "done"

\* ----------------------------------------------------------------------- C6

\* the block numbers blocknum_expect is asked about: around the window and
\* around the wrap
ProbeBlocks(n, w) ==
    {(n + k) % (MaxU16 + 1) : k \in 0..(w + 1)} \cup {0, 1, MaxU16}

\* C6: for every blocknum_ack n and windowsize W, blocknum_expect(b) is true
\* exactly for add(n,1) .. add(n,W) modulo 2^16, also when n + W exceeds 65535.
C6_ExpectIsModularWindow ==
    \A e \in Endpoints :
        sess[e].local_file = "Reader" =>
            \A b \in ProbeBlocks(sess[e].blocknum_ack, windowsize(sess[e].options)) :
                blocknum_expect(sess[e], b)
                    <=> InWindow(sess[e].blocknum_ack, windowsize(sess[e].options), b)

\* ----------------------------------------------------------------------- C7

\* the sender has discarded an ACK of a block of its current window
DiscardedInWindowAck ==
    /\ sess[Snd].pc = "wait"
    /\ sess[Snd].wait.kind = "none"
    /\ lastIn[Snd].op = "Ack"
    /\ InWindow(sess[Snd].blocknum_ack, windowsize(sess[Snd].options), lastIn[Snd].blocknum)

\* C7: a lossless transfer whose block number wraps from 65535 to 0 goes on
\* across the wrap and completes at both endpoints for every windowsize: no
\* error, no discarded in-window ACK, no stall ending in Timedout.
C7_WrapIsHarmless ==
    (~lost /\ ~FirstLap) =>
        /\ \A e \in Endpoints : sess[e].pc # "failed"
        /\ ~DiscardedInWindowAck

\* ----------------------------------------------------------------------- C8

\* a lossless transfer with windowsize 4 has ended at both endpoints
C8_Case ==
    /\ ~lost
    /\ windowsize(sess[Snd].options) = 4
    /\ \A e \in Endpoints : sess[e].pc = "done"
    /\ lastIn[Snd].op = "Ack"

NextIndex == (dstBase \div blksize(sess[Rcv].options)) + Len(wlog) + 1

\* C9: with no datagram lost, the receiver answers a DATA block with an ACK
\* only when it is the W-th block since its previous ACK or the final short
\* block, then with exactly one ACK, of that block; it answers the other
\* blocks with nothing.
C9_AckAtWindowEndOrFinal ==
    [][(/\ RecvStep(Rcv)
        /\ ~lost
        /\ sess[Rcv].local_file = "Writer"
        /\ Head(net[Rcv]).op = "Data")
       => LET pkt == Head(net[Rcv])
              w == windowsize(sess[Rcv].options)
          IN  IF NextIndex % w = 0 \/ Len(pkt.data) < blksize(sess[Rcv].options)
              THEN /\ ackSent'[Rcv] = ackSent[Rcv] + 1
                   /\ net'[Snd] = Append(net[Snd], ack(pkt.blocknum))
              ELSE /\ ackSent'[Rcv] = ackSent[Rcv]
                   /\ net'[Snd] = net[Snd]]_vars

\* C9 witness: without loss and with a windowsize above 1, the receiver has
\* ended on a final block that was also the last of its window, having
\* answered an earlier window too.
C9_Witness ==
    /\ ~lost
    /\ FirstLap
    /\ windowsize(sess[Rcv].options) > 1
    /\ sess[Rcv].pc = "done"
    /\ lastIn[Rcv].op = "Data"
    /\ Len(wlog) = 2 * windowsize(sess[Rcv].options)
    /\ ackSent[Rcv] = 2 + (IF Snd = "s" THEN 1 ELSE 0)

\* ---------------------------------------------------------------------- C10

\* C10: wait_for_recv runs the send action once, re-sends it on each deadline
\* expiry, and fails with Timedout exactly after 10 retransmissions have gone
\* unanswered (11 sends in all), never after fewer.
C10_TimedoutAfterElevenSends ==
    \A e \in Endpoints :
        (sess[e].pc = "failed" /\ sess[e].err = "Timedout") => sends[e] = RetransmitLimit + 1

\* ---------------------------------------------------------------------- C11

ServerOpened == sess["s"].local_file # "None"

\* the request of the client as packet::request puts it on the wire
RequestBytes ==
    request_bytes(req_code, filename, cliMode,
                  IF req_code = "Wrq" THEN set_tsize(cliOptions, srcLen) ELSE cliOptions)

\* the options the server parses from that request
Offered == parse_request(RequestBytes).options

\* C12: the options of a server session, cut off against the server's limits,
\* have a blksize and a windowsize not above a configured limit, a timeout and
\* a tsize only when the server accepts them, and no option the request did not
\* carry.
C12_CutOffWithinLimits ==
    ServerOpened =>
        LET o == sess["s"].options
        IN  /\ (limitations.blksize # None /\ o.blksize # None)
                    => o.blksize <= limitations.blksize
            /\ (limitations.windowsize # None /\ o.windowsize # None)
                    => o.windowsize <= limitations.windowsize
            /\ limitations.timeout = None => o.timeout = None
            /\ limitations.tsize = None => o.tsize = None
            /\ Offered.blksize = None => o.blksize = None
            /\ Offered.timeout = None => o.timeout = None
            /\ Offered.tsize = None => o.tsize = None
            /\ Offered.windowsize = None => o.windowsize = None

\* C12 witness: a request offered all four options above the limits of a server
\* that limits blksize and windowsize and accepts tsize but not timeout.
C12_Witness ==
    /\ ServerOpened
    /\ Offered.blksize = OfferBlksize /\ sess["s"].options.blksize = LimitBlksize
    /\ Offered.windowsize = MaxWindow /\ sess["s"].options.windowsize = LimitWindow
    /\ Offered.timeout = OfferTimeout /\ sess["s"].options.timeout = None
    /\ Offered.tsize # None /\ sess["s"].options.tsize # None

\* ---------------------------------------------------------------------- C13

\* the option names an OACK lists
OackKeys(pkt) ==
    LET parameters == split(pkt.data, NULL)
    IN  {parameters[i] : i \in {j \in 1..(Len(parameters) - 1) : j % 2 = 1}}

\* the names of the options the request carries
OfferedKeys ==
    {Utf8(k) : k \in {n \in {"blksize", "timeout", "tsize", "windowsize"} :
                        \/ n = "blksize" /\ Offered.blksize # None
                        \/ n = "timeout" /\ Offered.timeout # None
                        \/ n = "tsize" /\ Offered.tsize # None
                        \/ n = "windowsize" /\ Offered.windowsize # None}}

\* an option of the request remains after clamping against the limits
OptionRemains ==
    \/ Offered.blksize # None
    \/ Offered.windowsize # None
    \/ Offered.timeout # None /\ limitations.timeout # None
    \/ Offered.tsize # None /\ limitations.tsize # None

\* C13: the first reply of a server that has opened the file of a request is an
\* OACK exactly when an option remains after clamping, and then lists only
\* options the request carries; otherwise it is DATA 1 for an RRQ and ACK 0 for
\* a WRQ.
C13_FirstReply ==
    [][(sess["s"].pc = "listen" /\ sess'["s"].local_file # "None")
       => LET reply == net'["c"]
          IN  /\ reply # <<>>
              /\ reply[1].op = "Oack" <=> OptionRemains
              /\ reply[1].op = "Oack" => OackKeys(reply[1]) \subseteq OfferedKeys
              /\ reply[1].op # "Oack" =>
                    IF req_code = "Rrq" THEN reply[1].op = "Data" /\ reply[1].blocknum = 1
                    ELSE reply = <<ack(0)>>]_vars

\* C13 witness: the server has answered an RRQ that offered a timeout, which it
\* does not negotiate, and nothing else with DATA 1.
C13_Witness ==
    /\ req_code = "Rrq"
    /\ Offered.timeout # None
    /\ limitations.tsize # None
    /\ sess["s"].local_file = "Reader"
    /\ sess["c"].wait.kind = "req"
    /\ net["c"] # <<>>
    /\ Head(net["c"]).op = "Data"
    /\ Head(net["c"]).blocknum = 1

\* ---------------------------------------------------------------------- C14

\* this step is the client handling the first response to its request
FirstResponse == RecvStep("c") /\ sess["c"].wait.kind = "req"

\* what the client does next on its first response, an OACK leaving it with
\* the options negotiated: DATA 1 or ACK 0 after an OACK, the defaults of every
\* option after a DATA or an ACK 0
FirstResponseHandled(negotiated) ==
    LET pkt == Head(net["c"])
        sent == SubSeq(net'["s"], Len(net["s"]) + 1, Len(net'["s"]))
    IN  /\ pkt.op = "Oack" =>
            /\ sess'["c"].options = negotiated
            /\ sent # <<>>
            /\ IF req_code = "Wrq" THEN sent[1].op = "Data" /\ sent[1].blocknum = 1
               ELSE sent = <<ack(0)>>
        /\ (pkt.op = "Data" \/ (pkt.op = "Ack" /\ pkt.blocknum = 0)) =>
            /\ blksize(sess'["c"].options) = DefaultBlksize
            /\ timeout_secs(sess'["c"].options) = DefaultTimeout
            /\ windowsize(sess'["c"].options) = DefaultWindowsize

\* C14 as stated: on an OACK the options of the client session become exactly
\* the options the server put in the OACK, and the client sends DATA 1 (WRQ) or
\* ACK 0 (RRQ); on DATA or ACK 0 it goes on with blksize 512, timeout 10 and
\* windowsize 1 whatever its request carried.
C14_OackOptionsExactly ==
    [][FirstResponse => FirstResponseHandled(sess["s"].options)]_vars

\* C14 amended: on an OACK the options of the client session become the options
\* of the OACK whose values are in range (blksize 8..65464, timeout 1..255,
\* windowsize 1..65535), an option with another value staying unset; the rest
\* as stated.
C14_OackOptionsInRange ==
    [][FirstResponse => FirstResponseHandled(OptionsFrom(sess["s"].options))]_vars

\* C14 witness: the client of a WRQ has taken a clamped blksize and windowsize
\* from the OACK and has sent DATA 1.
C14_Witness ==
    /\ req_code = "Wrq"
    /\ lastIn["c"].op = "Oack"
    /\ sess["c"].options.blksize = LimitBlksize
    /\ sess["c"].options.windowsize = LimitWindow
    /\ sess["c"].options = sess["s"].options
    /\ net["s"] # <<>>
    /\ Head(net["s"]).op = "Data"
    /\ Head(net["s"]).blocknum = 1

\* ---------------------------------------------------------------------- C15

\* this step is the server task handling the request
RequestStep == sess["s"].pc = "listen" /\ sess'["s"].pc # "listen"

\* the request parses: the server gets past packet::parse_request
RequestParses == parse_request(RequestBytes).err = ""

\* C15: the server answers an RRQ for a file that does not exist under its root
\* with an ERROR packet carrying code 1 (FileNotFound).
C15_MissingFileIsCode1 ==
    [][(/\ RequestStep
        /\ RequestParses
        /\ req_code = "Rrq"
        /\ push(Root, filename) = Root \o <<Utf8("new")>>)
       => /\ net'["c"] # <<>>
          /\ net'["c"][1].op = "Error"
          /\ net'["c"][1].code = 1]_vars

\* ---------------------------------------------------------------------- C16

\* C16: the server answers a WRQ whose target exists under its root with an ERROR packet
\* carrying code 6 (FileAlreadyExists) and leaves the file as it is.
C16_ExistingFileIsCode6 ==
    [][(/\ RequestStep
        /\ RequestParses
        /\ req_code = "Wrq"
        /\ push(Root, filename) = Root \o <<Utf8("a")>>)
       => /\ sess'["s"].local_file = "None"
          /\ dst' = dst
          /\ net'["c"] # <<>>
          /\ net'["c"][1].op = "Error"
          /\ net'["c"][1].code = 6]_vars

\* ---------------------------------------------------------------------- C17

\* C17: a session that ends on a local error, on either side, first sends one
\* ERROR packet to its peer.
C17_ErrorSentOnLocalError ==
    [][\A e \in Endpoints :
        (sess[e].pc # "failed" /\ sess'[e].pc = "failed")
        => /\ Len(net'[Peer(e)]) = Len(net[Peer(e)]) + 1
           /\ net'[Peer(e)][Len(net'[Peer(e)])].op = "Error"]_vars

\* ---------------------------------------------------------------------- C18

\* the file name has a ".." component or is absolute
UnsafeName ==
    \/ \E i \in 1..Len(Components(filename)) : Components(filename)[i] = Utf8("..")
    \/ filename # <<>> /\ Head(filename) = 47

\* C18: the server rejects a request whose file name has a ".." component or is
\* absolute with InvalidFileName, and opens or creates no file.
C18_UnsafeNameRejected ==
    [][(RequestStep /\ RequestParses /\ UnsafeName)
       => /\ sess'["s"].pc = "failed"
          /\ sess'["s"].err = "InvalidFileName"
          /\ sess'["s"].local_file = "None"]_vars

\* ---------------------------------------------------------------------- C19

\* C19: a request of mode mail passes packet::parse_request, and the server
\* session ends with an error before any transfer: no file opened, no OACK, DATA
\* or ACK sent.
C19_MailRejected ==
    [][(RequestStep /\ cliMode = "mail")
       => /\ RequestParses
          /\ sess'["s"].pc = "failed"
          /\ sess'["s"].local_file = "None"
          /\ \A i \in 1..Len(net'["c"]) : net'["c"][i].op \notin {"Oack", "Data", "Ack"}]_vars

\* ---------------------------------------------------------------------- C20

\* parse_request of the serialised request of the client yields its opcode,
\* file name, mode and options
RoundTrips ==
    LET r == parse_request(RequestBytes)
    IN  /\ r.err = ""
        /\ r.op_code = req_code
        /\ r.filename = filename
        /\ r.mode = cliMode
        /\ r.options = (IF req_code = "Wrq" THEN set_tsize(cliOptions, srcLen) ELSE cliOptions)

\* C20 as stated: for every RRQ or WRQ whose file name and mode have no NUL and
\* whose options are in range, parse_request(request(R)) yields R.
C20_RoundTripAnyMode == RoundTrips /\ filename # <<>>

\* C20 amended: the same for the requests whose mode is netascii, octet or
\* mail in any letter case.
C20_RoundTripTftpMode ==
    to_lowercase(Utf8(cliMode)) \in {Utf8("netascii"), Utf8("octet"), Utf8("mail")}
        => RoundTrips

\* C20 witness: the server has parsed an RRQ of mode OCTET carrying the largest
\* value of every option, and has taken its mode, blksize and windowsize.
C20_Witness ==
    /\ req_code = "Rrq"
    /\ cliOptions = EdgeOptions
    /\ cliMode = "OCTET"
    /\ sess["s"].local_file = "Reader"
    /\ sess["s"].mode = "OCTET"
    /\ sess["s"].options.blksize = MaxBlksize
    /\ sess["s"].options.windowsize = MaxU16

\* ---------------------------------------------------------------------- C21

\* every block read has been written
XlatDone == xlat.eof /\ xlat.blocks = <<>>

\* C21: a file of any bytes (CR, LF, NUL and ordinary ones), read in netascii
\* mode into successive buffers of any length with the carry threaded between
\* the reads, and its blocks written in order by the netascii writer with its
\* own carry threaded, is written back byte for byte, on a Unix host.
C21_NetasciiRoundTrip == XlatDone => xlat.file = srcText

\* C21 witness: a file holding a CR before an LF and ending in a CR has gone
\* through buffers of one byte, so every two-byte code was split over two
\* blocks.
C21_Witness ==
    /\ XlatDone
    /\ xlat.len = 1
    /\ srcText = <<LF, CR, LF, 97, CR>>
    /\ xlat.file = srcText

\* ---------------------------------------------------------------------- C22

\* C22: once the client has received its first response, the peer address of
\* its session is the address that response came from (the socket of the server
\* task), and every datagram it sends from then on goes to that address, never
\* to the service address its request went to.
C22_PeerRebound ==
    [][sess'["c"].connected =>
        /\ sess'["c"].remote_addr = SockAddr("s")
        /\ Len(net'["s"]) > Len(net["s"]) => sentTo'["c"] = SockAddr("s")]_vars

\* C22 witness: the client, whose request went to the service address, has
\* answered a DATA block after its first response, and that ACK went to the
\* socket of the server task.
C22_Witness ==
    /\ FirstLap
    /\ req_code = "Rrq"
    /\ sess["c"].connected
    /\ sess["c"].blocknum_ack = 2
    /\ ackSent["c"] >= 2
    /\ sentTo["c"] = SockAddr("s")
    /\ sentTo["c"] # ServiceAddr

\* ---------------------------------------------------------------------- C23

\* this step is the expiry of the deadline of e's wait
TimeoutStep(e) ==
    /\ sess[e].pc = "wait"
    /\ net["c"] = <<>> /\ net["s"] = <<>>
    /\ sess'[e] # sess[e]

\* the DATA packet of block b of an octet transfer, as first transmitted:
\* blocks are numbered from 1 in the first lap
FirstTransmission(b, blk) ==
    data(b, [i \in 1..Min(blk, srcLen - (b - 1) * blk) |-> SrcByte((b - 1) * blk + i - 1)])

\* the DATA packets of the window the sender has not been acknowledged: the
\* blocks after blocknum_ack, at most windowsize of them, up to the final short
\* block
UnackedWindow ==
    LET s == sess[Snd]
        blk == blksize(s.options)
        final == (srcLen \div blk) + 1
        last == Min(s.blocknum_ack + windowsize(s.options), final)
    IN  [k \in 1..(last - s.blocknum_ack) |-> FirstTransmission(s.blocknum_ack + k, blk)]

\* the sender has sent a window of DATA and waits for its ACK, with
\* retransmissions left
AwaitsAck ==
    /\ sess[Snd].pc = "wait"
    /\ sess[Snd].local_file = "Reader"
    /\ sess[Snd].wait.kind \in {"data", "none"}
    /\ sess[Snd].retransmit < RetransmitLimit

\* C23: when the deadline of a sender waiting for the ACK of a window expires,
\* the sender sends every DATA block of that window again, numbers and payloads
\* as first transmitted, also when it has discarded an out-of-window ACK during
\* the wait. Stated for the first lap of the block numbers.
C23_WindowResentOnTimeout ==
    [][(TimeoutStep(Snd) /\ AwaitsAck /\ FirstLap) => net'[Rcv] = UnackedWindow]_vars

\* ---------------------------------------------------------------------- C24

\* the datagram the sender is about to process is an ACK of no block of its
\* current window, and the sender has sent DATA before
StaleAck ==
    /\ RecvStep(Snd)
    /\ sess[Snd].local_file = "Reader"
    /\ sess[Snd].wait.kind \in {"data", "none"}
    /\ Head(net[Snd]).op = "Ack"
    /\ ~InWindow(sess[Snd].blocknum_ack, windowsize(sess[Snd].options),
                 Head(net[Snd]).blocknum)

\* C24: a sender that receives a stale or duplicate ACK, a repeated ACK 0 after
\* its first DATA included, sends no DATA packet in response and waits for the
\* next datagram.
C24_StaleAckNotAnswered ==
    [][StaleAck =>
        /\ net'[Rcv] = net[Rcv]
        /\ dataSent'[Snd] = dataSent[Snd]
        /\ sess'[Snd].pc = "wait"]_vars

\* ---------------------------------------------------------------------- C25

\* the DATA packets endpoint e sends in this step: a step that sends DATA sends
\* nothing else
DataSentBy(e) ==
    LET n == Len(net'[Peer(e)])
    IN  SubSeq(net'[Peer(e)], n - (dataSent'[e] - dataSent[e]) + 1, n)

\* an ACK of a block of its window is about to be processed by the sender
AckInWindow ==
    /\ RecvStep(Snd)
    /\ sess[Snd].local_file = "Reader"
    /\ Head(net[Snd]).op = "Ack"
    /\ InWindow(sess[Snd].blocknum_ack, windowsize(sess[Snd].options), Head(net[Snd]).blocknum)

\* C25: every DATA packet a sending session emits, first transmission or not,
\* whatever datagrams it has received, is numbered within
\* (blocknum_ack, blocknum_ack + windowsize] modulo 2^16 of the session as the
\* step leaves it; and an ACK of a block of the window leaves blocknum_ack
\* equal to its block number.
C25_DataInWindow ==
    [][/\ \A i \in 1..Len(DataSentBy(Snd)) :
            InWindow(sess'[Snd].blocknum_ack, windowsize(sess'[Snd].options),
                     DataSentBy(Snd)[i].blocknum)
       /\ AckInWindow => sess'[Snd].blocknum_ack = Head(net[Snd]).blocknum]_vars

\* ---------------------------------------------------------------------- C26

\* the receiver is about to process a DATA block ahead of the one it expects:
\* a later block of the window that starts after blocknum_ack
DataAhead ==
    /\ RecvStep(Rcv)
    /\ sess[Rcv].local_file = "Writer"
    /\ Head(net[Rcv]).op = "Data"
    /\ \E k \in 2..windowsize(sess[Rcv].options) :
            Head(net[Rcv]).blocknum = (sess[Rcv].blocknum_ack + k) % (MaxU16 + 1)

\* what the receiver does with a block ahead of the expected one: nothing
\* written, one ACK of its blocknum_ack sent, and it receives again with
\* received_data counted from 0
GapAnswered ==
    /\ dst' = dst
    /\ wlog' = wlog
    /\ sess'[Rcv].blocknum_ack = sess[Rcv].blocknum_ack
    /\ net'[Snd] = Append(net[Snd], ack(sess[Rcv].blocknum_ack))
    /\ sess'[Rcv].pc = "wait"
    /\ after_recv(sess'[Rcv]).received_data = 0

\* C26: a receiver that gets a DATA block ahead of the expected block
\* blocknum_ack + 1 writes nothing, sends an ACK of its current blocknum_ack,
\* resets received_data and goes on receiving, for every blocknum_ack, those
\* next to the step from 65535 to 0 included.
C26_GapAcked == [][DataAhead => GapAnswered]_vars

\* ---------------------------------------------------------------------- C27

\* the blocks acknowledged at endpoint e have stepped from 65535 to 0: the
\* transfers that start below 65535 end a few blocks after 0
Wrapped(e) == ~FirstLap /\ sess[e].blocknum_ack <= MaxBlocks + MaxWindow

\* C27: at each endpoint rollover counts the steps of the acknowledged block
\* numbers from 65535 to 0: it is 0 in a transfer that does not reach block
\* 65535, at most 1 in one that wraps once, and 1 once the acknowledged number
\* has wrapped, whatever was lost and re-sent around the wrap.
C27_RolloverCountsWraps ==
    \A e \in Endpoints :
        /\ FirstLap => sess[e].rollover = 0
        /\ sess[e].rollover <= 1
        /\ Wrapped(e) => sess[e].rollover = 1

\* ---------------------------------------------------------------------- C28

\* the client is about to process an OACK after its first response, having
\* processed a DATA or an ACK already
LateOack ==
    /\ RecvStep("c")
    /\ sess["c"].connected
    /\ lastIn["c"].op \in {"Data", "Ack"}
    /\ Head(net["c"]).op = "Oack"

\* C28: an OACK processed once the DATA/ACK exchange has begun is a protocol
\* violation: it leaves the negotiated options of the session as they are and
\* makes the session send neither DATA nor ACK.
C28_LateOackRejected ==
    [][LateOack =>
        /\ sess'["c"].options = sess["c"].options
        /\ dataSent'["c"] = dataSent["c"]
        /\ ackSent'["c"] = ackSent["c"]]_vars

\* ---------------------------------------------------------------------- C29

\* the number of the final, short DATA block of the source file
FinalBlock == ((srcLen \div blksize(sess[Snd].options)) + 1) % (MaxU16 + 1)

\* C29: a sending session ends its transfer as complete only on an ACK of the
\* final, short DATA block; an ACK of an earlier block of the window that ends
\* with the short block does not end it.
C29_CompleteOnFinalAck ==
    (/\ sess[Snd].pc = "done"
     /\ sess[Snd].local_file = "Reader"
     /\ lastIn[Snd].op = "Ack")
    => lastIn[Snd].blocknum = FinalBlock


\* ---------------------------------------------------------------------- C30

\* the bytes written so far are the bytes of the source at the same offsets
DstIsPrefix ==
    /\ dstBase + Len(dst) <= srcLen
    /\ \A i \in 1..Len(dst) : dst[i] = SrcByte(dstBase + i - 1)

\* C30: in octet mode of an existing source file, within the first lap of the
\* block numbers, whatever the channel loses or delivers twice or late, the
\* bytes in the receiver's file are always a prefix of the source file, and
\* when the receiver has ended its transfer successfully the file equals the
\* source.
C30_FileIsPrefixOfSource ==
    (cliMode = "octet" /\ srvFileOk /\ FirstLap) =>
        /\ DstIsPrefix
        /\ sess[Rcv].pc = "done" => DstComplete


\* ---------------------------------------------------------------------- C31

\* this step is the Recv of e, of a datagram of the kind the other side of a
\* transfer receives: a DATA at the session with the reader, an ACK at the
\* session with the writer
WrongSideRecv(e) ==
    /\ RecvStep(e)
    /\ \/ sess[e].local_file = "Reader" /\ Head(net[e]).op = "Data"
       \/ sess[e].local_file = "Writer" /\ Head(net[e]).op = "Ack"

\* C31: a DATA delivered to a session that holds a reader, or an ACK delivered
\* to a session that holds a writer, never takes the session to the panic of
\* TftpSession::reader or TftpSession::writer_mut: the session goes on waiting
\* or ends with an error value.
C31_NoWrongSidePanic ==
    [][\A e \in Endpoints :
        WrongSideRecv(e) => sess'[e].pc \in {"wait", "failed"}]_vars


\* ---------------------------------------------------------------------- C32

\* C32: the endpoints agree on the outcome: when the endpoint that writes the
\* copy has ended its transfer with success on the final short block, the
\* endpoint that reads the source has not ended with Timedout, also when the
\* ACK of the final short block was lost.
C32_OutcomesAgree ==
    (sess[Rcv].pc = "done" /\ lastIn[Rcv].op = "Data") =>
        ~(sess[Snd].pc = "failed" /\ sess[Snd].err = "Timedout")


\* ---------------------------------------------------------------------- C33

\* the server task runs a request whose mode parse_request took for octet
AcceptedAsOctet ==
    /\ sess["s"].pc # "listen"
    /\ sess["s"].local_file # "None"
    /\ to_lowercase(Utf8(sess["s"].mode)) = Utf8("octet")

\* every DATA the server has in flight carries the bytes of the source file at
\* the offset of its block
ServerReadTransparent ==
    \A i \in 1..Len(net["c"]) :
        LET pkt == net["c"][i]
            blk == blksize(sess["s"].options)
            off == (pkt.blocknum - 1) * blk
        IN  pkt.op = "Data" =>
                /\ Len(pkt.data) = Min(blk, srcLen - off)
                /\ \A j \in 1..Len(pkt.data) : pkt.data[j] = SrcByte(off + j - 1)

\* C33: a request whose mode parse_request accepts as octet, in any letter
\* case, is transferred transparently by the server session: the DATA it sends
\* carry the bytes of its file as they are, and a DATA it writes is appended to
\* its file as it is.
C33_OctetAnyCaseTransparent ==
    [][AcceptedAsOctet' =>
        /\ ServerReadTransparent'
        /\ (req_code = "Wrq" /\ Len(wlog') > Len(wlog))
            => dst' = dst \o Head(net["s"]).data]_vars


\* ---------------------------------------------------------------------- C34

\* the tasks of the server that run a session with the client
ActiveTasks == {i \in 1..Len(listener.tasks) : listener.tasks[i].s.pc = "wait"}

\* the tasks of the server that have sent the client a datagram
AnsweringTasks == {i \in 1..Len(listener.tasks) : listener.tasks[i].out # <<>>}

\* C34: at most one server session is active for the client's address and
\* port: a second copy of the request at the listener starts no second
\* session, and no second task sends the client an ERROR, an OACK or DATA from
\* another port.
C34_OneSessionPerClient ==
    /\ Cardinality(ActiveTasks) <= 1
    /\ Cardinality(AnsweringTasks) <= 1


\* ---------------------------------------------------------------------- C35

\* both tasks have returned
Terminated == \A e \in Endpoints : sess[e].pc \in {"done", "failed"}

\* C35: over a channel that loses or reorders finitely many datagrams and
\* delivers each at most once, both sessions eventually terminate, with
\* completion, an error or Timedout; no session waits or exchanges packets
\* forever.
C35_BothTerminate == <>[]Terminated

\* C35 case: the channel has lost one datagram and delivered another late,
\* and both sessions have ended with nothing left in flight
W35_TerminatedAfterLossAndDelay ==
    /\ Terminated
    /\ lost
    /\ dup.state = "delivered"
    /\ net["c"] = <<>> /\ net["s"] = <<>>
    /\ dataSent["c"] + dataSent["s"] > DupBlocks

====
